---- MODULE Spec2Model ----
(***************************************************************************)
(* Phoenix-AI: the agentic tool-calling loop (core/brain.py), the approval *)
(* records (core/memory.py) and the Telegram callback handler (bot.py).    *)
(***************************************************************************)
EXTENDS Integers, Sequences, FiniteSets, TLC

VARIABLES
    th,                 \* the running think() call: position and locals
    conversations,      \* rows of table conversations, in insertion order
    toolRuns,           \* every tool handler execution, in order
    pending_media,      \* PhoenixBrain.pending_media
    now,                \* datetime.utcnow(), in minutes
    approvals,          \* rows of table pending_approvals, row id = index
    pending_approvals,  \* PhoenixBot.pending_approvals (in-memory cache)
    audit_logs,         \* rows of table audit_logs, in insertion order
    cb,                 \* the handle_callback coroutines, one per event
    lastLookup,         \* the last get_pending_approval call and its result
    ctx,                \* the last get_conversation_for_context call and its result
    mon,                \* OmniAgentMonitor: the last get_full_status result
    ml,                 \* OmniAgentMonitor: the monitoring loop and its counters
    am,                 \* AlertManager: cooldown table and delivered alerts
    bot,                \* PhoenixBot: the allow-list and what its handlers answered
    prefs,              \* MemoryManager: user_preferences rows and the calls on them
    mt                  \* PhoenixBrain: think calls of several users on one brain

loopVars == <<th, conversations, toolRuns, pending_media>>
gateVars == <<now, approvals, pending_approvals, audit_logs, cb, lastLookup>>
ctxVars == <<ctx>>
monVars == <<mon, ml, am>>
extVars == <<bot, prefs, mt>>
vars == <<th, conversations, toolRuns, pending_media,
          now, approvals, pending_approvals, audit_logs, cb, lastLookup,
          ctx, mon, ml, am, bot, prefs, mt>>

----------------------------------------------------------------------------
\* Bounds of the model

MaxToolCalls == 2       \* tool invocations in one model reply
MaxApprovals == 1       \* approval requests created in one behaviour
MaxCallbacks == 2       \* button events handled in one behaviour
MaxTime == 11           \* last clock value, in minutes
MaxReplies == 1         \* replies with tool invocations before the final one
MaxHistory == 3         \* stored turns in a drawn history
MaxBudget == 4          \* largest max_tokens asked for
MaxDeadLetter == 1      \* dead-letter tasks reported
MaxFailed == 3          \* failed tasks reported
MaxHoursAgo == 9        \* age of the last successful post, in hours
MaxTicks == 4           \* iterations of the monitoring loop
MaxUpdates == 3         \* updates the bot handles in one behaviour
MaxPrefCalls == 3       \* calls of get_preferences and update_preferences

----------------------------------------------------------------------------
\* Values

None == "None"
NoTime == 0 - 1                         \* a datetime column that is NULL
NoId == <<None, 0>>                     \* callback data without an id
NoApproval == [tool |-> None, input |-> None, user_id |-> None, created_at |-> NoTime]
NoResult == [response |-> None, video |-> None]
Users == {"u1", "u2"}
UserMessages == {"edit y.py"}
FinalTexts == {"Done.", "Omni-Agent is healthy"}
NoContext == [called |-> FALSE, user_id |-> None, max_tokens |-> 0, result |-> <<>>]
NoStatus == [evaluated |-> FALSE, aborted |-> FALSE, polls |-> <<>>,
             overall |-> None, issues |-> <<>>,
             health |-> [status |-> None], tasks |-> [status |-> None],
             scheduler |-> [status |-> None]]
\* AlertManager.__init__: no alert sent yet; sent is the record of the
\* messages posted to Telegram.
NoAlerts == [last_alert_time |-> <<>>, sent |-> <<>>]
\* OmniAgentMonitor.__init__: the loop is not running.
LoopOff == [pc |-> "off", is_running |-> FALSE, interval |-> 0,
            consecutive_failures |-> 0, ticks |-> 0, recent |-> <<>>,
            overall |-> None, invoked |-> FALSE, raised |-> FALSE,
            fixed |-> <<>>, tick_time |-> 0]

\* A bot that has answered nothing yet, with this allow-list.
NewBot(allowed) == [allowed |-> allowed, denied |-> {}, cleared_at |-> NoTime]
NoBot == NewBot({})
\* An empty user_preferences table on which nothing has been called.
NoPrefs == [rows |-> <<>>, calls |-> <<>>]
\* A think call on the shared brain that has just started, and the brain on
\* which none has.
MediaStarted == [pc |-> "call", queued |-> None, tools |-> 0, result |-> NoResult]
NoThinks == <<>>

\* The part of the tool catalog the model's replies draw from.
Tools == {"check_omni_agent", "edit_github_file"}

\* The tools the catalog and the system prompt declare as approval-required.
RequiresApproval(tool_name) == tool_name = "edit_github_file"

\* The names _execute_tool dispatches on.
KnownTools == {"check_omni_agent", "run_animal_facts", "check_task",
               "test_overlay", "get_omni_logs", "get_post_history",
               "get_project_stats", "update_schedule", "toggle_scheduler",
               "add_animal", "list_themes", "create_theme", "run_theme",
               "set_theme_source", "delete_theme", "read_github_file",
               "edit_github_file", "list_github_files", "search_github_code",
               "get_railway_logs", "send_video"}

\* The attributes of PhoenixBrain a caller can look up.
BrainMethods == {"think", "_call_claude", "_execute_tool",
                 "_get_system_prompt", "_get_tools"}

max_iterations == 5
TooManySteps == "Request took too many steps. Please try again."

\* The argument strings a tool invocation of the model carries.
ArgStrings == {"{}"}

\* json.loads of an argument string, guarded by the bare except of think:
\* a JSON object parses to its mapping, anything else gives the empty mapping.
\* A parsed value is written as its canonical JSON text.
JsonObjects == {"{}", "{\"check_type\": \"health\"}"}
JsonValues == JsonObjects \cup {"[]"}
EmptyArgs == "{}"
ParseArgsKeep(s) == s
ParseArgs(s) == IF s \in JsonValues THEN s ELSE EmptyArgs

\* The tool_calls lists one model reply can carry: 1..MaxToolCalls
\* invocations, each with the id the model gave it (its position), a tool
\* name and an argument string.
ToolCallLists ==
    UNION { { [j \in 1..n |-> [id |-> j, name |-> f[j].name,
                               arguments |-> f[j].arguments]] :
              f \in [1..n -> [name: Tools, arguments: ArgStrings]] } :
            n \in 1..MaxToolCalls }

----------------------------------------------------------------------------
\* MemoryManager: conversations

add_message(rows, user_id, role, content) ==
    Append(rows, [user_id |-> user_id, role |-> role, content |-> content])

\* The number of stored turns with this role.
CountRole(rows, role) == Len(SelectSeq(rows, LAMBDA r: r.role = role))

UserRows(rows, user_id) ==
    SelectSeq(rows, LAMBDA r: r.user_id = user_id)

\* The last n elements of a sequence (ORDER BY created_at DESC LIMIT n).
LastN(s, n) == IF Len(s) <= n THEN s ELSE SubSeq(s, Len(s) - n + 1, Len(s))

RECURSIVE TakeWithinBudgetLate(_, _, _)
TakeWithinBudgetLate(rows, estimated_tokens, max_tokens) ==
    IF rows = <<>> THEN <<>>
    ELSE LET msg == Head(rows)
             msg_tokens == Len(msg.content) \div 4
         IN IF estimated_tokens > max_tokens THEN <<>>
            ELSE <<[role |-> msg.role, content |-> msg.content]>>
                 \o TakeWithinBudgetLate(Tail(rows),
                                         estimated_tokens + msg_tokens,
                                         max_tokens)

RECURSIVE TakeWithinBudget(_, _, _)
\* The for-loop of get_conversation_for_context over reversed(messages):
\* it walks the rows oldest first and stops at the first one that would
\* push the estimate over max_tokens.
TakeWithinBudget(rows, estimated_tokens, max_tokens) ==
    IF rows = <<>> THEN <<>>
    ELSE LET msg == Head(rows)
             msg_tokens == Len(msg.content) \div 4
         IN IF estimated_tokens + msg_tokens > max_tokens THEN <<>>
            ELSE <<[role |-> msg.role, content |-> msg.content]>>
                 \o TakeWithinBudget(Tail(rows), estimated_tokens + msg_tokens,
                                     max_tokens)

get_conversation_for_context(rows, user_id, max_tokens) ==
    TakeWithinBudget(LastN(UserRows(rows, user_id), 100), 0, max_tokens)

----------------------------------------------------------------------------
\* PhoenixBrain

\* _call_claude: the request carries the system prompt followed by the
\* messages it was given.
SystemPrompt == "system prompt"
call_claude_messages(messages) ==
    <<[role |-> "system", content |-> SystemPrompt]>> \o messages

ThinkIdle == [pc |-> "idle", user_id |-> None, messages |-> <<>>, i |-> 0,
              tool_calls |-> <<>>, k |-> 0, modelCalls |-> 0,
              onlyToolReplies |-> TRUE, gatedSelected |-> FALSE,
              iterRuns |-> <<>>, user_message |-> None, ending |-> "none",
              reply_text |-> None,
              malformed |-> FALSE,
              result |-> NoResult]

\* The text a tool handler returns.
ToolResult(tool_name) == <<"result", tool_name>>

\* _execute_tool: dispatch on the name; every known name runs its handler,
\* whatever the tool's approval flag.
DispatchRuns(tool_name) == tool_name \in KnownTools

\* How a handler call can end: it returns its text, or raises an Exception.
HandlerOutcomes == {"ok", "Exception"}

\* The dispatch branch evaluates args.get(...) before it calls the handler:
\* on a parsed value that is no mapping this raises AttributeError, inside
\* the try block of _execute_tool.
IsMapping(args) == args \in JsonObjects

\* The handler is called: the name is known and the arguments are a mapping.
HandlerRuns(tool_name, args) == DispatchRuns(tool_name) /\ IsMapping(args)

\* except Exception as e: does the try block of _execute_tool catch it?
CatchesNothing(kind) == FALSE
Catches(kind) == kind = "Exception"

\* Does _execute_tool itself raise?
DispatchRaises(tool_name, args, outcome) ==
    /\ DispatchRuns(tool_name)
    /\ \/ ~IsMapping(args) /\ ~Catches("Exception")
       \/ IsMapping(args) /\ outcome /= "ok" /\ ~Catches(outcome)

\* The text _execute_tool returns when it does not raise.
execute_tool_text(tool_name, args, outcome) ==
    IF ~DispatchRuns(tool_name) THEN <<"Unknown tool", tool_name>>
    ELSE IF ~IsMapping(args) THEN <<"Tool error", "AttributeError">>
    ELSE IF outcome = "ok" THEN ToolResult(tool_name)
    ELSE <<"Tool error", outcome>>

execute_tool_result(tool_name) == execute_tool_text(tool_name, EmptyArgs, "ok")

\* think, up to the first model call: reset the media slot, build the
\* context, append and store the user turn.
ThinkStartUnsaved(user_id, user_message) ==
    /\ th.pc = "idle"
    /\ pending_media' = None
    /\ th' = [th EXCEPT
                !.pc = "call",
                !.user_id = user_id,
                !.user_message = user_message,
                !.messages = Append(
                    get_conversation_for_context(conversations, user_id, 10000),
                    [role |-> "user", content |-> user_message])]
    /\ UNCHANGED <<ctxVars, extVars, monVars, conversations, toolRuns, gateVars>>

ThinkStart(user_id, user_message) ==
    /\ th.pc = "idle"
    /\ pending_media' = None
    /\ th' = [th EXCEPT
                !.pc = "call",
                !.user_id = user_id,
                !.user_message = user_message,
                !.messages = Append(
                    get_conversation_for_context(conversations, user_id, 10000),
                    [role |-> "user", content |-> user_message])]
    /\ conversations' = add_message(conversations, user_id, "user", user_message)
    /\ UNCHANGED <<ctxVars, extVars, monVars, toolRuns, gateVars>>

ModelErrorRetry ==
    /\ th.pc = "call"
    /\ th.modelCalls < max_iterations
    /\ th' = [th EXCEPT !.modelCalls = @ + 1,
                        !.onlyToolReplies = FALSE, !.ending = "error",
                        !.result = [response |-> "Error", video |-> None]]
    /\ UNCHANGED <<ctxVars, extVars, monVars, conversations, toolRuns, pending_media, gateVars>>

\* _call_claude returned {"error": ...}: think returns the error reply.
ModelError ==
    /\ th.pc = "call"
    /\ th' = [th EXCEPT !.pc = "done", !.modelCalls = @ + 1,
                        !.onlyToolReplies = FALSE, !.ending = "error",
                        !.result = [response |-> "Error", video |-> None]]
    /\ UNCHANGED <<ctxVars, extVars, monVars, conversations, toolRuns, pending_media, gateVars>>

\* A reply with tool_calls whose assistant message is not appended.
ModelToolCallsUnrecorded(calls) ==
    /\ th.pc = "call"
    /\ th' = [th EXCEPT
                !.pc = "tools",
                !.modelCalls = @ + 1,
                !.tool_calls = calls,
                !.k = 1,
                !.iterRuns = <<>>,
                !.gatedSelected =
                    @ \/ \E j \in 1..Len(calls): RequiresApproval(calls[j].name)]
    /\ UNCHANGED <<ctxVars, extVars, monVars, conversations, toolRuns, pending_media, gateVars>>

\* The reply carries tool_calls: the assistant message joins the context and
\* the for-loop over the invocations starts.
ModelToolCalls(calls) ==
    /\ th.pc = "call"
    /\ th' = [th EXCEPT
                !.pc = "tools",
                !.modelCalls = @ + 1,
                !.messages = Append(@, [role |-> "assistant", tool_calls |-> calls]),
                !.tool_calls = calls,
                !.k = 1,
                !.iterRuns = <<>>,
                !.gatedSelected =
                    @ \/ \E j \in 1..Len(calls): RequiresApproval(calls[j].name)]
    /\ UNCHANGED <<ctxVars, extVars, monVars, conversations, toolRuns, pending_media, gateVars>>

ModelFinalUnsaved(final_response) ==
    /\ th.pc = "call"
    /\ th' = [th EXCEPT !.pc = "done", !.modelCalls = @ + 1,
                        !.onlyToolReplies = FALSE, !.ending = "final",
                        !.reply_text = final_response,
                        !.result = [response |-> final_response,
                                    video |-> pending_media]]
    /\ UNCHANGED <<ctxVars, extVars, monVars, conversations, toolRuns, pending_media, gateVars>>

\* The reply carries no tool_calls: its text is stored and returned.
ModelFinal(final_response) ==
    /\ th.pc = "call"
    /\ th' = [th EXCEPT !.pc = "done", !.modelCalls = @ + 1,
                        !.onlyToolReplies = FALSE, !.ending = "final",
                        !.reply_text = final_response,
                        !.result = [response |-> final_response,
                                    video |-> pending_media]]
    /\ conversations' = add_message(conversations, th.user_id, "assistant",
                                    final_response)
    /\ UNCHANGED <<ctxVars, extVars, monVars, toolRuns, pending_media, gateVars>>

\* The bodies of a reply that has no 'error' key and no usable message.
MalformedShapes == {"no choices", "choices: [{}]", "choices: []"}

\* assistant_message.get('content', 'Done.')
DefaultContent == "Done."

\* response.get('choices', [{}])[0].get('message', {}) on such a body: a
\* missing key gives the empty message, whose text defaults to 'Done.' and
\* is stored and returned like a final answer; an empty list raises
\* IndexError, which leaves think.
ModelMalformed(shape) ==
    /\ th.pc = "call"
    /\ IF shape = "choices: []"
       THEN /\ th' = [th EXCEPT !.pc = "done", !.modelCalls = @ + 1,
                                !.onlyToolReplies = FALSE, !.malformed = TRUE,
                                !.ending = "raised"]
            /\ UNCHANGED conversations
       ELSE /\ th' = [th EXCEPT !.pc = "done", !.modelCalls = @ + 1,
                                !.onlyToolReplies = FALSE, !.malformed = TRUE,
                                !.ending = "final",
                                !.reply_text = DefaultContent,
                                !.result = [response |-> DefaultContent,
                                            video |-> pending_media]]
            /\ conversations' = add_message(conversations, th.user_id,
                                            "assistant", DefaultContent)
    /\ UNCHANGED <<ctxVars, extVars, monVars, toolRuns, pending_media, gateVars>>

\* for i in range(max_iterations): is iteration i the last one?
LoopExhaustedLate(i) == i >= max_iterations
LoopExhausted(i) == i + 1 >= max_iterations

\* The invocation the for-loop takes at position k of the reply.
NextCallReversed(calls, k) == calls[Len(calls) + 1 - k]
NextCall(calls, k) == calls[k]

\* One pass of the for-loop body: parse the arguments, await _execute_tool,
\* append the tool message.  After the last invocation the iteration ends;
\* after the last iteration think returns the fallback.  If _execute_tool
\* raised, the exception would leave think.
ExecuteToolWith(outcome) ==
    /\ th.pc = "tools"
    /\ LET tool_call == NextCall(th.tool_calls, th.k)
           tool_name == tool_call.name
           args == ParseArgs(tool_call.arguments)
           ran == HandlerRuns(tool_name, args)
           raises == DispatchRaises(tool_name, args, outcome)
           last == th.k = Len(th.tool_calls)
           exhausted == last /\ LoopExhausted(th.i)
       IN /\ toolRuns' = IF ran
                         THEN Append(toolRuns, [tool |-> tool_name, args |-> args,
                                                via |-> "think",
                                                user_id |-> th.user_id])
                         ELSE toolRuns
          /\ th' = IF raises
                   THEN [th EXCEPT !.pc = "done", !.ending = "raised"]
                   ELSE [th EXCEPT
                      !.messages = Append(@, [role |-> "tool",
                                              tool_call_id |-> tool_call.id,
                                              content |-> execute_tool_text(
                                                  tool_name, args, outcome)]),
                      !.iterRuns = IF ran THEN Append(@, tool_call) ELSE @,
                      !.k = @ + 1,
                      !.i = IF last THEN @ + 1 ELSE @,
                      !.pc = IF exhausted THEN "done"
                             ELSE IF last THEN "call" ELSE "tools",
                      !.ending = IF exhausted THEN "cap" ELSE @,
                      !.result = IF exhausted
                                 THEN [response |-> TooManySteps, video |-> None]
                                 ELSE @]
    /\ UNCHANGED <<ctxVars, extVars, monVars, conversations, pending_media, gateVars>>


ExecuteToolStoringFallback ==
    /\ th.pc = "tools"
    /\ LET tool_call == NextCall(th.tool_calls, th.k)
           last == th.k = Len(th.tool_calls)
           exhausted == last /\ LoopExhausted(th.i)
       IN /\ toolRuns' = Append(toolRuns, [tool |-> tool_call.name,
                                           args |-> ParseArgs(tool_call.arguments),
                                           via |-> "think",
                                           user_id |-> th.user_id])
          /\ conversations' = IF exhausted
                              THEN add_message(conversations, th.user_id,
                                               "assistant", TooManySteps)
                              ELSE conversations
          /\ th' = [th EXCEPT
                      !.messages = Append(@, [role |-> "tool",
                                              tool_call_id |-> tool_call.id,
                                              content |-> execute_tool_result(
                                                  tool_call.name)]),
                      !.iterRuns = Append(@, tool_call),
                      !.k = @ + 1,
                      !.i = IF last THEN @ + 1 ELSE @,
                      !.pc = IF exhausted THEN "done"
                             ELSE IF last THEN "call" ELSE "tools",
                      !.ending = IF exhausted THEN "cap" ELSE @,
                      !.result = IF exhausted
                                 THEN [response |-> TooManySteps, video |-> None]
                                 ELSE @]
    /\ UNCHANGED <<ctxVars, extVars, monVars, pending_media, gateVars>>

\* The loop with handlers that return their text.
ExecuteTool == ExecuteToolWith("ok")

----------------------------------------------------------------------------
\* MemoryManager: approvals and audit log

TTL == 10    \* timedelta(minutes=10)

\* The steps the clock is observed to advance by between two operations.
TickSteps == {TTL \div 2, TTL + 1}

ApprovalRequests == {[tool |-> "edit_github_file", input |-> "{repo: X, path: y.py}"]}

\* create_approval: one more row, status 'pending' by column default.
create_approval(rows, user_id, action_type, payload, t) ==
    Append(rows, [user_id |-> user_id, action_type |-> action_type,
                  action_payload |-> payload, status |-> "pending",
                  created_at |-> t, expires_at |-> t + TTL,
                  resolved_at |-> NoTime])

\* The row get_pending_approval's query selects: id match and status pending.
PendingRow(rows, approval_id) ==
    approval_id \in 1..Len(rows) /\ rows[approval_id].status = "pending"

IsExpired(row, t) == row.expires_at < t

\* get_pending_approval: the rows after the call ...
get_pending_approval_rows(rows, approval_id, t) ==
    IF PendingRow(rows, approval_id) /\ IsExpired(rows[approval_id], t)
    THEN [rows EXCEPT ![approval_id].status = "expired"]
    ELSE rows

\* ... and whether it returns a dict (TRUE) or None (FALSE).
get_pending_approval_found(rows, approval_id, t) ==
    PendingRow(rows, approval_id) /\ ~IsExpired(rows[approval_id], t)

\* The row resolve_approval's query selects: id match only.
ResolvableRow(rows, approval_id) == approval_id \in 1..Len(rows)

resolve_approval(rows, approval_id, approved, t) ==
    IF ResolvableRow(rows, approval_id)
    THEN [rows EXCEPT ![approval_id].status =
                          IF approved THEN "approved" ELSE "rejected",
                      ![approval_id].resolved_at = t]
    ELSE rows

log_actionTwice(rows, user_id, action, details, status, error) ==
    Append(Append(rows, [user_id |-> user_id, action |-> action,
                         details |-> details, status |-> status,
                         error_message |-> error]),
           [user_id |-> user_id, action |-> action, details |-> details,
            status |-> status, error_message |-> error])

log_action(rows, user_id, action, details, status, error) ==
    Append(rows, [user_id |-> user_id, action |-> action, details |-> details,
                  status |-> status, error_message |-> error])

GetPendingApproval(approval_id) ==
    /\ approvals' = get_pending_approval_rows(approvals, approval_id, now)
    /\ lastLookup' = [id |-> approval_id,
                      found |-> get_pending_approval_found(approvals, approval_id, now)]
    /\ UNCHANGED <<ctxVars, extVars, monVars, loopVars, now, pending_approvals, audit_logs, cb>>

ResolveApproval(approval_id, approved) ==
    /\ approvals' = resolve_approval(approvals, approval_id, approved, now)
    /\ UNCHANGED <<ctxVars, extVars, monVars, loopVars, now, pending_approvals, audit_logs, cb, lastLookup>>

Tick(d) ==
    /\ now + d <= MaxTime
    /\ now' = now + d
    /\ UNCHANGED <<ctxVars, extVars, monVars, loopVars, approvals, pending_approvals, audit_logs, cb, lastLookup>>

----------------------------------------------------------------------------
\* PhoenixBot: approval requests and button events

\* approval_id = f"{user_id}_{timestamp}": the owner and the creation
\* timestamp, which differs between any two requests; the n-th request
\* carries stamp n.
ApprovalId(user_id, stamp) == <<user_id, stamp>>

\* The ids for which buttons have been sent.
IssuedIds == {ApprovalId(approvals[n].user_id, n) : n \in 1..Len(approvals)}

\* The durable row written by the request that issued this id.
RowOf(approval_id) == approval_id[2]

CacheWith(cache, approval_id, entry) ==
    [x \in DOMAIN cache \cup {approval_id} |->
        IF x = approval_id THEN entry ELSE cache[x]]

CacheWithoutNothing(cache, approval_id) == cache

CacheWithout(cache, approval_id) ==
    [x \in DOMAIN cache \ {approval_id} |-> cache[x]]

\* _request_approval: store the entry in the cache and the row in the table.
RequestApproval(user_id, approval_request) ==
    /\ Len(approvals) < MaxApprovals
    /\ LET approval_id == ApprovalId(user_id, Len(approvals) + 1)
       IN pending_approvals' =
            CacheWith(pending_approvals, approval_id,
                      [tool |-> approval_request.tool,
                       input |-> approval_request.input,
                       user_id |-> user_id,
                       created_at |-> now])
    /\ approvals' = create_approval(approvals, user_id, approval_request.tool,
                                    approval_request.input, now)
    /\ UNCHANGED <<ctxVars, extVars, monVars, loopVars, now, audit_logs, cb, lastLookup>>

\* The cache membership test that opens handle_callback.
InCache(approval_id) ==
    approval_id /= NoId /\ approval_id \in DOMAIN pending_approvals

\* The identity test: may this sender resolve this cached entry?
IsOwnerAnyone(approval, user_id) == TRUE
IsOwner(approval, user_id) == approval.user_id = user_id

\* Has the approval's expires_at passed at time t?  (The cache entry keeps
\* created_at only; expires_at is created_at plus the TTL.)
Late(approval_id, t) ==
    approval_id \in IssuedIds /\ approvals[RowOf(approval_id)].expires_at < t

\* The coroutine of one button press, as it stands at an await.
Callback(action, approval_id, from_user) ==
    [pc |-> "done", action |-> action, approval_id |-> approval_id,
     from_user |-> from_user, approval |-> NoApproval,
     late |-> Late(approval_id, now), logged |-> FALSE, outcome |-> None,
     result |-> None]

\* handle_callback with a details branch that writes an audit entry.
HandleCallbackDetailsLogged(action, approval_id, from_user) ==
    /\ Len(cb) < MaxCallbacks
    /\ LET c == Callback(action, approval_id, from_user)
       IN IF ~InCache(approval_id)
          THEN /\ cb' = Append(cb, [c EXCEPT !.result = "expired"])
               /\ UNCHANGED audit_logs
          ELSE LET approval == pending_approvals[approval_id]
               IN IF ~IsOwner(approval, from_user)
                  THEN /\ cb' = Append(cb, [c EXCEPT !.result = "not yours"])
                       /\ UNCHANGED audit_logs
                  ELSE IF action = "approve"
                  THEN /\ cb' = Append(cb, [c EXCEPT !.pc = "execute",
                                                     !.approval = approval])
                       /\ UNCHANGED audit_logs
                  ELSE IF action = "reject"
                  THEN /\ audit_logs' = log_action(audit_logs, from_user,
                                                   approval.tool, approval.input,
                                                   "rejected", None)
                       /\ cb' = Append(cb, [c EXCEPT !.pc = "cleanup",
                                                     !.approval = approval,
                                                     !.logged = TRUE,
                                                     !.outcome = "rejected"])
                  ELSE /\ audit_logs' = log_action(audit_logs, from_user,
                                                   approval.tool, approval.input,
                                                   "details", None)
                       /\ cb' = Append(cb, [c EXCEPT !.result = "details"])
    /\ UNCHANGED <<ctxVars, extVars, monVars, loopVars, now, approvals, pending_approvals, lastLookup>>

\* A button press: handle_callback runs from query.answer() to its next
\* await: the membership test, the owner test, and the branch on the action.
\* (Nothing is read before query.answer() returns.)
HandleCallback(action, approval_id, from_user) ==
    /\ Len(cb) < MaxCallbacks
    /\ LET c == Callback(action, approval_id, from_user)
       IN IF ~InCache(approval_id)
          THEN /\ cb' = Append(cb, [c EXCEPT !.result = "expired"])
               /\ UNCHANGED audit_logs
          ELSE LET approval == pending_approvals[approval_id]
               IN IF ~IsOwner(approval, from_user)
                  THEN /\ cb' = Append(cb, [c EXCEPT !.result = "not yours"])
                       /\ UNCHANGED audit_logs
                  ELSE IF action = "approve"
                  THEN /\ cb' = Append(cb, [c EXCEPT !.pc = "execute",
                                                     !.approval = approval])
                       /\ UNCHANGED audit_logs
                  ELSE IF action = "reject"
                  THEN /\ audit_logs' = log_action(audit_logs, from_user,
                                                   approval.tool, approval.input,
                                                   "rejected", None)
                       /\ cb' = Append(cb, [c EXCEPT !.pc = "cleanup",
                                                     !.approval = approval,
                                                     !.logged = TRUE,
                                                     !.outcome = "rejected"])
                  ELSE /\ cb' = Append(cb, [c EXCEPT !.result = "details"])
                       /\ UNCHANGED audit_logs
    /\ UNCHANGED <<ctxVars, extVars, monVars, loopVars, now, approvals, pending_approvals, lastLookup>>

\* The method handle_callback looks up on the brain.
CallbackToolMethod == "execute_tool"

\* The try block of the approve branch: the lookup of the brain's method
\* raises AttributeError when the brain has no such attribute, and the
\* except clause logs the failure; otherwise the tool runs and success is
\* logged.
CbExecute(p) ==
    /\ p \in DOMAIN cb
    /\ cb[p].pc = "execute"
    /\ LET c == cb[p]
       IN IF CallbackToolMethod \in BrainMethods
          THEN /\ toolRuns' = Append(toolRuns, [tool |-> c.approval.tool,
                                                args |-> c.approval.input,
                                                via |-> "approve",
                                                user_id |-> c.from_user])
               /\ audit_logs' = log_action(audit_logs, c.from_user, c.approval.tool,
                                           c.approval.input, "success", None)
               /\ cb' = [cb EXCEPT ![p].pc = "cleanup", ![p].logged = TRUE,
                                   ![p].outcome = "done"]
          ELSE /\ audit_logs' = log_action(audit_logs, c.from_user, c.approval.tool,
                                           c.approval.input, "failed",
                                           "AttributeError")
               /\ cb' = [cb EXCEPT ![p].pc = "cleanup", ![p].logged = TRUE,
                                   ![p].outcome = "failed"]
               /\ UNCHANGED toolRuns
    /\ UNCHANGED <<ctxVars, extVars, monVars, th, conversations, pending_media, now, approvals,
                   pending_approvals, lastLookup>>

\* del self.pending_approvals[approval_id], after the last await of the
\* branch: KeyError when the entry is gone.
CbCleanup(p) ==
    /\ p \in DOMAIN cb
    /\ cb[p].pc = "cleanup"
    /\ IF cb[p].approval_id \in DOMAIN pending_approvals
       THEN /\ pending_approvals' = CacheWithout(pending_approvals, cb[p].approval_id)
            /\ cb' = [cb EXCEPT ![p].pc = "done", ![p].result = cb[p].outcome]
       ELSE /\ cb' = [cb EXCEPT ![p].pc = "done", ![p].result = "KeyError"]
            /\ UNCHANGED pending_approvals
    /\ UNCHANGED <<ctxVars, extVars, monVars, loopVars, now, approvals, audit_logs, lastLookup>>

----------------------------------------------------------------------------
Init ==
    /\ th = ThinkIdle
    /\ conversations = <<>>
    /\ toolRuns = <<>>
    /\ pending_media = None
    /\ now = 0
    /\ approvals = <<>>
    /\ pending_approvals = <<>>
    /\ audit_logs = <<>>
    /\ cb = <<>>
    /\ lastLookup = [id |-> 0, found |-> FALSE]
    /\ ctx = NoContext
    /\ mon = NoStatus
    /\ ml = LoopOff
    /\ am = NoAlerts
    /\ bot = NoBot
    /\ prefs = NoPrefs
    /\ mt = NoThinks

Next ==
    \/ \E u \in Users, m \in UserMessages: ThinkStart(u, m)
    \/ ModelError
    \/ \E calls \in ToolCallLists: ModelToolCalls(calls)
    \/ \E text \in FinalTexts: ModelFinal(text)
    \/ \E shape \in MalformedShapes: ModelMalformed(shape)
    \/ ExecuteTool

Spec == Init /\ [][Next]_vars

\* get_conversation_for_context over drawn histories and budgets.
Contents == {"ok", "yes.", "status??", "check status"}
Roles == {"user", "assistant"}
Histories ==
    UNION { [1..n -> [user_id: Users, role: Roles, content: Contents]] :
            n \in 0..MaxHistory }

ContextInit ==
    /\ conversations \in Histories
    /\ th = ThinkIdle
    /\ toolRuns = <<>>
    /\ pending_media = None
    /\ now = 0
    /\ approvals = <<>>
    /\ pending_approvals = <<>>
    /\ audit_logs = <<>>
    /\ cb = <<>>
    /\ lastLookup = [id |-> 0, found |-> FALSE]
    /\ ctx = NoContext
    /\ mon = NoStatus
    /\ ml = LoopOff
    /\ am = NoAlerts
    /\ bot = NoBot
    /\ prefs = NoPrefs
    /\ mt = NoThinks

GetContext(user_id, max_tokens) ==
    /\ ctx' = [called |-> TRUE, user_id |-> user_id, max_tokens |-> max_tokens,
               result |-> get_conversation_for_context(conversations, user_id,
                                                       max_tokens)]
    /\ UNCHANGED <<extVars, monVars, loopVars, gateVars>>

ContextNext ==
    \E user_id \in Users, max_tokens \in 0..MaxBudget:
        GetContext(user_id, max_tokens)

ContextSpec == ContextInit /\ [][ContextNext]_vars

----------------------------------------------------------------------------
\* OmniAgentMonitor.get_full_status

max_hours_without_post == 8

\* What check_health, check_tasks and check_scheduler can return: the error
\* object of the except clause carries none of the counters.
HealthResults == {[status |-> "healthy"], [status |-> "unhealthy"],
                  [status |-> "error"]}
TasksResults ==
    {[status |-> "error"]} \cup
    [status: {"ok"}, failed: 0..MaxFailed, dead_letter: 0..MaxDeadLetter]
\* last_success: absent (None), or a log whose timestamp parses to an age
\* in hours, or a log whose timestamp does not parse.
LastSuccessValues ==
    [present: {FALSE}, parses: {FALSE}, hours_ago: {0}] \cup
    [present: {TRUE}, parses: {FALSE}, hours_ago: {0}] \cup
    [present: {TRUE}, parses: {TRUE}, hours_ago: 0..MaxHoursAgo]
SchedulerResults ==
    {[status |-> "error"]} \cup [status: {"ok"}, last_success: LastSuccessValues]

\* tasks.get(key, 0)
TasksGet(tasks, key) == IF key \in DOMAIN tasks THEN tasks[key] ELSE 0

\* The four tests of get_full_status, in the order of the code.
HealthIssue(health) ==
    IF health.status /= "healthy" THEN <<"health">> ELSE <<>>
DeadLetterIssue(tasks) ==
    IF TasksGet(tasks, "dead_letter") > 0 THEN <<"dead_letter">> ELSE <<>>
FailedIssue(tasks) ==
    IF TasksGet(tasks, "failed") > 2 THEN <<"failed">> ELSE <<>>
StaleIssue(scheduler) ==
    IF /\ "last_success" \in DOMAIN scheduler
       /\ scheduler.last_success.present
       /\ scheduler.last_success.parses
       /\ scheduler.last_success.hours_ago > max_hours_without_post
    THEN <<"stale">> ELSE <<>>

Issues(health, tasks, scheduler) ==
    HealthIssue(health) \o DeadLetterIssue(tasks) \o FailedIssue(tasks)
        \o StaleIssue(scheduler)

OverallLenient(issues) ==
    IF Len(issues) > 3 THEN "critical"
    ELSE IF issues /= <<>> THEN "warning" ELSE "healthy"

\* "critical" if len(issues) > 2 else "warning" if issues else "healthy"
Overall(issues) ==
    IF Len(issues) > 2 THEN "critical"
    ELSE IF issues /= <<>> THEN "warning" ELSE "healthy"

\* except Exception as e: in check_health, check_tasks and check_scheduler:
\* does the poll catch a failure of its request?
PollCatchesNothing(kind) == FALSE
PollCatches(kind) == kind = "Exception"

\* The request of this poll failed, and the failure leaves the poll.
PollEscapes(result) == result.status = "error" /\ ~PollCatches("Exception")

\* The three awaits of get_full_status, in order, up to one that raises.
PollsPerformed(health, tasks, scheduler) ==
    IF PollEscapes(health) THEN <<"health">>
    ELSE IF PollEscapes(tasks) THEN <<"health", "tasks">>
    ELSE <<"health", "tasks", "scheduler">>

GetFullStatus(health, tasks, scheduler) ==
    /\ mon' = IF Len(PollsPerformed(health, tasks, scheduler)) < 3
                  \/ PollEscapes(scheduler)
              THEN [NoStatus EXCEPT
                       !.aborted = TRUE,
                       !.polls = PollsPerformed(health, tasks, scheduler)]
              ELSE [evaluated |-> TRUE, aborted |-> FALSE,
                    polls |-> PollsPerformed(health, tasks, scheduler),
                    overall |-> Overall(Issues(health, tasks, scheduler)),
                    issues |-> Issues(health, tasks, scheduler),
                    health |-> health, tasks |-> tasks, scheduler |-> scheduler]
    /\ UNCHANGED <<ml, am, ctxVars, extVars, loopVars, gateVars>>

MonitorNext ==
    \E health \in HealthResults, tasks \in TasksResults,
       scheduler \in SchedulerResults:
        GetFullStatus(health, tasks, scheduler)

MonitorSpec == Init /\ [][MonitorNext]_vars

----------------------------------------------------------------------------
\* AlertManager.send_alert

cooldown_minutes == 30

\* status.get('overall', 'unknown'): a status carries its overall class, the
\* auto-fix report carries none.
AlertKey(payload) ==
    IF "overall" \in DOMAIN payload THEN payload.overall ELSE "unknown"

InCooldownNever(a, alert_key, t) == FALSE

\* The cooldown test: an alert with this key was sent less than
\* cooldown_minutes ago.
InCooldown(a, alert_key, t) ==
    /\ alert_key \in DOMAIN a.last_alert_time
    /\ t - a.last_alert_time[alert_key] < cooldown_minutes

\* send_alert that stamps the key also when it skips the alert.
send_alertStampsSkipped(a, payload, t) ==
    IF InCooldown(a, AlertKey(payload), t)
    THEN [a EXCEPT !.last_alert_time = CacheWith(@, AlertKey(payload), t)]
    ELSE [last_alert_time |-> CacheWith(a.last_alert_time, AlertKey(payload), t),
          sent |-> Append(a.sent, [key |-> AlertKey(payload),
                                   type |-> payload.type,
                                   about |-> payload.about, time |-> t])]

\* send_alert: skip in cooldown; otherwise stamp the key and post the message.
send_alert(a, payload, t) ==
    IF InCooldown(a, AlertKey(payload), t) THEN a
    ELSE [last_alert_time |-> CacheWith(a.last_alert_time, AlertKey(payload), t),
          sent |-> Append(a.sent, [key |-> AlertKey(payload),
                                   type |-> payload.type,
                                   about |-> payload.about, time |-> t])]

\* What the loop hands to the callback: the status of the tick, and one
\* report per auto-fix.
StatusPayload(overall) == [type |-> "status", overall |-> overall, about |-> overall]
FixPayload(issue) == [type |-> "auto_fix", about |-> issue]

\* The reports of the fixes of one tick, one send_alert call after another.
RECURSIVE ReportFixes(_, _, _)
ReportFixes(a, issues, t) ==
    IF issues = <<>> THEN a
    ELSE ReportFixes(send_alert(a, FixPayload(Head(issues)), t), Tail(issues), t)

----------------------------------------------------------------------------
\* OmniAgentMonitor.run_monitoring_loop, with AlertManager.send_alert behind
\* the alert callback

max_consecutive_failures == 3

\* interval_seconds, in minutes: the default and a longer one.
Intervals == {5, 15}

\* How a call of the alert callback can end.
CallbackOutcomes == {"ok", "Exception"}

\* The poll results a tick draws from: each issue present or absent.
TickHealth == {[status |-> "healthy"], [status |-> "error"]}
TickTasks == [status: {"ok"}, failed: {0, 3}, dead_letter: {0, 1}]
TickScheduler ==
    [status: {"ok"},
     last_success: {[present |-> FALSE, parses |-> FALSE, hours_ago |-> 0],
                    [present |-> TRUE, parses |-> TRUE,
                     hours_ago |-> max_hours_without_post + 1]}]

\* diagnose_issue: the issues for which auto_fixable is set (dead letter, no
\* successful post, health); a count of failed tasks matches no branch.
AutoFixable(issue) == issue \in {"dead_letter", "stale", "health"}

\* except Exception as e: around the body of one iteration.
LoopCatchesNothing(kind) == FALSE
LoopCatches(kind) == kind = "Exception"

\* The last n evaluations.
Recent(s, n) == IF Len(s) <= n THEN s ELSE SubSeq(s, Len(s) - n + 1, Len(s))

\* run_monitoring_loop is started: is_running is set and the while loop is
\* entered.
StartMonitoring(interval) ==
    /\ ml.pc = "off"
    /\ ml' = [ml EXCEPT !.pc = "tick", !.is_running = TRUE,
                        !.interval = interval]
    /\ UNCHANGED <<mon, am, ctxVars, extVars, loopVars, gateVars>>

\* while self.is_running: the test at the top of every iteration.
WhileTestAlways(m) == TRUE
WhileTest(m) == m.is_running

\* The while test passes and the try block of one iteration runs (no await
\* lies between the test and the first poll): evaluate, alert, count, and after
\* max_consecutive_failures critical evaluations diagnose and fix each issue
\* and report each fix.  alert_outcome is how the callback ends on the
\* status, report_outcome how it ends on the first fix report; an exception
\* leaves the try block at that point.
MonitorTick(health, tasks, scheduler, alert_outcome, report_outcome) ==
    /\ ml.pc = "tick"
    /\ WhileTest(ml)
    /\ ml.ticks < MaxTicks
    /\ LET issues == Issues(health, tasks, scheduler)
           overall == Overall(issues)
           alerting == overall /= "healthy"
           raised1 == alerting /\ alert_outcome /= "ok"
           am1 == IF alerting /\ ~raised1
                  THEN send_alert(am, StatusPayload(overall), now) ELSE am
           failures == IF raised1 THEN ml.consecutive_failures
                       ELSE IF overall = "critical"
                            THEN ml.consecutive_failures + 1 ELSE 0
           fixing == ~raised1 /\ failures >= max_consecutive_failures
           fixable == SelectSeq(issues, AutoFixable)
           raised2 == fixing /\ fixable /= <<>> /\ report_outcome /= "ok"
           fixed == IF ~fixing THEN <<>>
                    ELSE IF raised2 THEN <<Head(fixable)>> ELSE fixable
           raised == raised1 \/ raised2
       IN /\ am' = IF fixing /\ ~raised2 THEN ReportFixes(am1, fixable, now)
                   ELSE am1
          /\ ml' = [ml EXCEPT
                      !.pc = IF raised /\ ~LoopCatches("Exception")
                             THEN "crashed" ELSE "sleep",
                      !.ticks = @ + 1,
                      !.consecutive_failures = failures,
                      !.recent = Recent(Append(@, overall),
                                        max_consecutive_failures),
                      !.overall = overall,
                      !.invoked = alerting,
                      !.raised = raised,
                      !.fixed = fixed,
                      !.tick_time = now]
    /\ UNCHANGED <<mon, ctxVars, extVars, loopVars, gateVars>>

\* await asyncio.sleep(interval_seconds): the sleep of the iteration is over
\* and the coroutine is back at the while test.
MonitorSleep ==
    /\ ml.pc = "sleep"
    /\ now' = now + ml.interval
    /\ ml' = [ml EXCEPT !.pc = "tick"]
    /\ UNCHANGED <<mon, am, ctxVars, extVars, loopVars, approvals, pending_approvals,
                   audit_logs, cb, lastLookup>>

\* The while test fails: run_monitoring_loop returns.
MonitorExit ==
    /\ ml.pc = "tick"
    /\ ~WhileTest(ml)
    /\ ml' = [ml EXCEPT !.pc = "stopped"]
    /\ UNCHANGED <<mon, am, ctxVars, extVars, loopVars, gateVars>>

\* stop()
StopMonitoring ==
    /\ ml.is_running
    /\ ml' = [ml EXCEPT !.is_running = FALSE]
    /\ UNCHANGED <<mon, am, ctxVars, extVars, loopVars, gateVars>>

MonitorLoopNext ==
    \/ \E interval \in Intervals: StartMonitoring(interval)
    \/ \E health \in TickHealth, tasks \in TickTasks, scheduler \in TickScheduler,
          alert_outcome \in CallbackOutcomes, report_outcome \in CallbackOutcomes:
          MonitorTick(health, tasks, scheduler, alert_outcome, report_outcome)
    \/ MonitorSleep
    \/ MonitorExit
    \/ StopMonitoring

MonitorLoopSpec == Init /\ [][MonitorLoopNext]_vars

\* The event loop resumes a coroutine whose sleep is over, which then runs
\* the body of the while loop when its test passes and returns when it fails.
MonitorLoopFairSpec ==
    /\ MonitorLoopSpec
    /\ WF_vars(MonitorSleep)
    /\ WF_vars(MonitorExit)
    /\ WF_vars(\E health \in TickHealth, tasks \in TickTasks,
                  scheduler \in TickScheduler,
                  alert_outcome \in CallbackOutcomes,
                  report_outcome \in CallbackOutcomes:
                  MonitorTick(health, tasks, scheduler, alert_outcome,
                              report_outcome))

----------------------------------------------------------------------------
\* The agentic loop over what a model can put in an invocation: a name that
\* is or is not a tool, an argument string that is an object, another JSON
\* value or no JSON at all, and handlers that return or raise.
DispatchNames == {"check_omni_agent", "no_such_tool"}
DispatchArgStrings == {"{\"check_type\": \"health\"}", "{not json", "[]"}
DispatchCallLists ==
    UNION { { [j \in 1..n |-> [id |-> j, name |-> f[j].name,
                               arguments |-> f[j].arguments]] :
              f \in [1..n -> [name: DispatchNames,
                              arguments: DispatchArgStrings]] } :
            n \in {1, 2} }

\* A reply with invocations; the model stub sends at most MaxReplies of them.
DispatchReply(calls) ==
    /\ th.modelCalls < MaxReplies
    /\ ModelToolCalls(calls)

DispatchNext ==
    \/ \E user_id \in Users, user_message \in UserMessages:
           ThinkStart(user_id, user_message)
    \/ \E calls \in DispatchCallLists: DispatchReply(calls)
    \/ \E text \in FinalTexts: ModelFinal(text)
    \/ \E outcome \in HandlerOutcomes: ExecuteToolWith(outcome)

DispatchSpec == Init /\ [][DispatchNext]_vars

CallbackActions == {"approve", "reject", "details"}

\* The bot's side of the approval gate: requests and button events, which
\* interleave at the awaits of handle_callback.
GateNext ==
    \/ \E d \in TickSteps: Tick(d)
    \/ \E u \in Users, r \in ApprovalRequests: RequestApproval(u, r)
    \/ \E a \in CallbackActions, id \in IssuedIds \cup {NoId}, u \in Users:
          HandleCallback(a, id, u)
    \/ \E p \in DOMAIN cb: CbExecute(p)
    \/ \E p \in DOMAIN cb: CbCleanup(p)

GateSpec == Init /\ [][GateNext]_vars

\* The process is restarted between two updates: TelegramBot.__init__ gives
\* the new process an empty cache; the rows and the audit log are in the
\* database and stay.
Restart ==
    /\ \A p \in DOMAIN cb : cb[p].pc = "done"
    /\ pending_approvals /= <<>>
    /\ pending_approvals' = <<>>
    /\ UNCHANGED <<ctxVars, extVars, monVars, loopVars, now, approvals, audit_logs, cb,
                   lastLookup>>

\* The approval gate of a bot that can be restarted.
RestartNext ==
    \/ GateNext
    \/ Restart

RestartSpec == Init /\ [][RestartNext]_vars

----------------------------------------------------------------------------
\* PhoenixBot: the message handler, /clear and the button handler, one update
\* after the other (the Application is built without concurrent_updates)

\* TELEGRAM_ALLOWED_USERS split at the commas; a blank entry is written "".
AllowListEnvs == {<<>>, <<"">>, <<"u1">>, <<"u1", "">>}

\* ALLOWED_USERS: the entries that are not blank.
ParseAllowed(env) == {env[j] : j \in {k \in 1..Len(env) : env[k] /= ""}}

\* is_authorized: no allow-list lets everybody in.
is_authorizedAnyone(user_id) == TRUE
is_authorized(user_id) ==
    IF bot.allowed = {} THEN TRUE ELSE user_id \in bot.allowed

\* No update is being handled.
Quiet == th.pc = "idle" /\ \A p \in DOMAIN cb : cb[p].pc = "done"

\* The updates handled so far: messages passed to think, refusals, button
\* events, approval requests and /clear.
UpdatesHandled ==
    CountRole(conversations, "user") + Cardinality(bot.denied) + Len(cb)
        + Len(approvals) + (IF bot.cleared_at = NoTime THEN 0 ELSE 1)

\* The Application takes the next update when the handler of the one before
\* has returned.
NextUpdate == Quiet /\ UpdatesHandled < MaxUpdates

\* handle_message, up to the first await inside think: a sender who is not
\* authorized gets the refusal and nothing else happens.
HandleMessage(user_id, message) ==
    /\ NextUpdate
    /\ IF is_authorized(user_id)
       THEN ThinkStart(user_id, message)
       ELSE /\ bot' = [bot EXCEPT !.denied = @ \cup {user_id}]
            /\ UNCHANGED <<ctxVars, monVars, loopVars, gateVars, prefs, mt>>

\* The replies of the model stub behind the bot: at most one reply with one
\* invocation, then the final text.
BotCallLists ==
    {<<[id |-> 1, name |-> tool_name, arguments |-> EmptyArgs]>> :
        tool_name \in Tools}
BotReply(calls) == th.modelCalls = 0 /\ ModelToolCalls(calls)

\* handle_message after think has returned: the reply (or the error text) is
\* sent and the handler ends.
SendReply ==
    /\ th.pc = "done"
    /\ th' = ThinkIdle
    /\ UNCHANGED <<ctxVars, extVars, monVars, conversations, toolRuns,
                   pending_media, gateVars>>

\* /clear that deletes the sender's turns.
ClearDeleting(user_id) ==
    /\ NextUpdate
    /\ is_authorized(user_id)
    /\ bot' = [bot EXCEPT !.cleared_at = Len(conversations)]
    /\ conversations' = SelectSeq(conversations, LAMBDA r: r.user_id /= user_id)
    /\ UNCHANGED <<ctxVars, monVars, th, toolRuns, pending_media, gateVars,
                   prefs, mt>>

\* /clear from an authorized sender: the acknowledgement is sent, the stored
\* turns are left alone.  cleared_at notes how many turns were stored.
Clear(user_id) ==
    /\ NextUpdate
    /\ is_authorized(user_id)
    /\ bot' = [bot EXCEPT !.cleared_at = Len(conversations)]
    /\ UNCHANGED <<ctxVars, monVars, loopVars, gateVars, prefs, mt>>

BotInit ==
    /\ th = ThinkIdle
    /\ conversations = <<>>
    /\ toolRuns = <<>>
    /\ pending_media = None
    /\ now = 0
    /\ approvals = <<>>
    /\ pending_approvals = <<>>
    /\ audit_logs = <<>>
    /\ cb = <<>>
    /\ lastLookup = [id |-> 0, found |-> FALSE]
    /\ ctx = NoContext
    /\ mon = NoStatus
    /\ ml = LoopOff
    /\ am = NoAlerts
    /\ \E env \in AllowListEnvs : bot = NewBot(ParseAllowed(env))
    /\ prefs = NoPrefs
    /\ mt = NoThinks

BotNext ==
    \/ \E user_id \in Users, message \in UserMessages:
          HandleMessage(user_id, message)
    \/ ModelError
    \/ \E calls \in BotCallLists: BotReply(calls)
    \/ ModelFinal(DefaultContent)
    \/ ExecuteTool
    \/ SendReply
    \/ \E user_id \in Users: Clear(user_id)
    \/ \E u \in Users, r \in ApprovalRequests: NextUpdate /\ RequestApproval(u, r)
    \/ \E a \in CallbackActions, id \in IssuedIds \cup {NoId}, u \in Users:
          NextUpdate /\ HandleCallback(a, id, u)
    \/ \E p \in DOMAIN cb: CbExecute(p)
    \/ \E p \in DOMAIN cb: CbCleanup(p)

BotSpec == BotInit /\ [][BotNext]_vars

----------------------------------------------------------------------------
\* MemoryManager: get_preferences and update_preferences, each in a session
\* of its own; calls from several threads or processes interleave between
\* the query and the commit

\* The column defaults of UserPreference (two of the columns).
PrefDefaults == [verbosity |-> "concise", default_platform |-> "railway"]

\* The keyword arguments a call of update_preferences carries; 'nickname' is
\* no attribute of UserPreference.
PrefKwargs == {[key |-> "verbosity", value |-> "detailed"],
               [key |-> "nickname", value |-> "Dan"]}
NoKwargs == [key |-> None, value |-> None]

\* user_id = Column(String(50), unique=True, index=True)
UniqueUserIdOff == FALSE
UniqueUserId == TRUE

\* .filter(UserPreference.user_id == user_id).first(): the position of the
\* user's first row, 0 when there is none.
FirstPref(rows, user_id) ==
    IF \E n \in 1..Len(rows) : rows[n].user_id = user_id
    THEN CHOOSE n \in 1..Len(rows) :
            /\ rows[n].user_id = user_id
            /\ \A m \in 1..(n - 1) : rows[m].user_id /= user_id
    ELSE 0

\* for key, value in kwargs.items(): if hasattr(prefs, key): setattr(...)
SetPrefs(row, kwargs) ==
    IF kwargs.key \in DOMAIN PrefDefaults
    THEN [row EXCEPT ![kwargs.key] = kwargs.value]
    ELSE row

\* A call opens its session and runs its query.  get_preferences on an
\* existing row returns it; every other call has a commit ahead.
PrefQuery(op, user_id, kwargs) ==
    /\ Len(prefs.calls) < MaxPrefCalls
    /\ LET found == FirstPref(prefs.rows, user_id)
       IN prefs' = [prefs EXCEPT !.calls = Append(@,
                      [op |-> op, user_id |-> user_id, kwargs |-> kwargs,
                       found |-> found,
                       pc |-> IF op = "get" /\ found > 0 THEN "done"
                              ELSE "commit"])]
    /\ UNCHANGED <<ctxVars, monVars, loopVars, gateVars, bot, mt>>

\* session.commit(): a call that found no row inserts one (the defaults,
\* with the keyword arguments of an update applied), and the unique index
\* rejects the insert with IntegrityError when a row of the user has been
\* committed since the query; an update of a row that was found writes it.
PrefCommit(c) ==
    /\ c \in DOMAIN prefs.calls
    /\ prefs.calls[c].pc = "commit"
    /\ LET call == prefs.calls[c]
           fresh == [user_id |-> call.user_id,
                     verbosity |-> PrefDefaults.verbosity,
                     default_platform |-> PrefDefaults.default_platform]
           written == IF call.op = "update" THEN SetPrefs(fresh, call.kwargs)
                      ELSE fresh
       IN IF call.found = 0
          THEN IF UniqueUserId /\ FirstPref(prefs.rows, call.user_id) > 0
               THEN prefs' = [prefs EXCEPT !.calls[c].pc = "raised"]
               ELSE prefs' = [prefs EXCEPT !.calls[c].pc = "done",
                                           !.rows = Append(@, written)]
          ELSE prefs' = [prefs EXCEPT
                           !.calls[c].pc = "done",
                           !.rows[call.found] = SetPrefs(@, call.kwargs)]
    /\ UNCHANGED <<ctxVars, monVars, loopVars, gateVars, bot, mt>>

PrefsNext ==
    \/ \E user_id \in Users: PrefQuery("get", user_id, NoKwargs)
    \/ \E user_id \in Users, kwargs \in PrefKwargs:
          PrefQuery("update", user_id, kwargs)
    \/ \E c \in DOMAIN prefs.calls: PrefCommit(c)

PrefsSpec == Init /\ [][PrefsNext]_vars

----------------------------------------------------------------------------
\* PhoenixBrain: think calls of different users on the one brain object,
\* interleaving at the awaits of think (the model call, the tool call).
\* pending_media holds the url of the queued video.

\* The video_url arguments of a send_video invocation; '' is no url.
VideoUrls == {"", "a.mp4", "b.mp4"}

\* think, up to the first model call: the shared media slot is reset.
MediaStart(user_id) ==
    /\ user_id \notin DOMAIN mt
    /\ pending_media' = None
    /\ mt' = CacheWith(mt, user_id, MediaStarted)
    /\ UNCHANGED <<ctxVars, monVars, th, conversations, toolRuns, gateVars,
                   bot, prefs>>

\* The model asks for send_video and _tool_send_video runs: a url is put in
\* the shared slot.  queued notes what this call itself queued last.
MediaTool(user_id, video_url) ==
    /\ user_id \in DOMAIN mt
    /\ mt[user_id].pc = "call"
    /\ mt[user_id].tools < MaxToolCalls
    /\ pending_media' = IF video_url = "" THEN pending_media ELSE video_url
    /\ mt' = [mt EXCEPT ![user_id].tools = @ + 1,
                        ![user_id].queued = IF video_url = "" THEN @
                                            ELSE video_url]
    /\ UNCHANGED <<ctxVars, monVars, th, conversations, toolRuns, gateVars,
                   bot, prefs>>

\* The final reply: whatever the shared slot holds is attached as the video.
MediaFinal(user_id) ==
    /\ user_id \in DOMAIN mt
    /\ mt[user_id].pc = "call"
    /\ mt' = [mt EXCEPT ![user_id].pc = "done",
                        ![user_id].result = [response |-> DefaultContent,
                                             video |-> pending_media]]
    /\ UNCHANGED <<ctxVars, monVars, loopVars, gateVars, bot, prefs>>

MediaNext ==
    \/ \E user_id \in Users: MediaStart(user_id)
    \/ \E user_id \in Users, video_url \in VideoUrls: MediaTool(user_id, video_url)
    \/ \E user_id \in Users: MediaFinal(user_id)

MediaSpec == Init /\ [][MediaNext]_vars

\* The store's side of the approval gate: the approval methods of
\* MemoryManager on the rows the bot's requests create.
StoreNext ==
    \/ \E d \in TickSteps: Tick(d)
    \/ \E u \in Users, r \in ApprovalRequests: RequestApproval(u, r)
    \/ \E id \in 1..MaxApprovals: GetPendingApproval(id)
    \/ \E id \in 1..MaxApprovals, approved \in BOOLEAN: ResolveApproval(id, approved)

StoreSpec == Init /\ [][StoreNext]_vars

----------------------------------------------------------------------------
\* Properties of the agentic loop (Spec)

\* C1: a tool flagged approval-required is never run by think itself: every
\* run of such a tool's handler comes from an approve event.
C1_GatedToolRunsOnlyOnApprove ==
    \A n \in 1..Len(toolRuns):
        RequiresApproval(toolRuns[n].tool) => toolRuns[n].via = "approve"

\* C2: one think call never makes more than max_iterations model calls, and
\* a call in which every reply carried tool invocations ends after exactly
\* max_iterations model calls with the fixed fallback message.
C2_IterationCap ==
    /\ th.modelCalls <= max_iterations
    /\ (th.pc = "done" /\ th.onlyToolReplies)
          => /\ th.modelCalls = max_iterations
             /\ th.result.response = TooManySteps

C2_Witness ==
    /\ th.pc = "done"
    /\ th.onlyToolReplies
    /\ th.modelCalls = max_iterations
    /\ th.result.response = TooManySteps

\* C8: once the model's reply has selected an approval-required tool and the
\* loop has left that reply's invocations, the turn is over and exactly one
\* PendingApproval exists, pending, with an expires_at, persisted and cached.
C8_GatedToolYieldsOneApproval ==
    (th.gatedSelected /\ th.pc /= "tools")
        => /\ th.pc = "done"
           /\ Len(approvals) = 1
           /\ approvals[1].status = "pending"
           /\ approvals[1].expires_at /= NoTime
           /\ Cardinality(DOMAIN pending_approvals) = 1

Ungated(tool_call) == ~RequiresApproval(tool_call.name)

\* C10: within the reply being processed, the ungated tools that have run
\* are the ungated invocations taken so far, in the reply's order; each
\* invocation taken so far has appended exactly one tool message, in order,
\* right after the assistant message; and the next model call is made only
\* when every invocation of the reply has been taken.
C10_ToolsRunInOrder ==
    th.tool_calls /= <<>> =>
        LET taken == th.k - 1
            base == Len(th.messages) - taken
        IN /\ SelectSeq(th.iterRuns, Ungated)
                = SelectSeq(SubSeq(th.tool_calls, 1, taken), Ungated)
           /\ base >= 1
           /\ th.messages[base] = [role |-> "assistant", tool_calls |-> th.tool_calls]
           /\ \A j \in 1..taken:
                 th.messages[base + j] =
                     [role |-> "tool", tool_call_id |-> th.tool_calls[j].id,
                      content |-> execute_tool_result(th.tool_calls[j].name)]
           /\ th.pc = "call" => taken = Len(th.tool_calls)

C10_Witness ==
    /\ th.pc = "call"
    /\ Len(th.tool_calls) = 2
    /\ \A j \in 1..2: Ungated(th.tool_calls[j])
    /\ th.iterRuns = th.tool_calls
    /\ th.modelCalls = 2

----------------------------------------------------------------------------
\* Properties of the approval gate (GateSpec, StoreSpec)

Owner(approval_id) == approvals[RowOf(approval_id)].user_id

\* C3: a step of an approve or reject event whose sender is not the
\* approval's owner runs no handler, writes no audit entry and leaves the
\* approval's row and the cache as they are.
C3_NonOwnerChangesNothing ==
    [][\A p \in DOMAIN cb':
          ( /\ cb'[p].action \in {"approve", "reject"}
            /\ cb'[p].approval_id \in IssuedIds
            /\ cb'[p].from_user /= Owner(cb'[p].approval_id)
            /\ (p \notin DOMAIN cb \/ cb[p] /= cb'[p]) )
          => /\ toolRuns' = toolRuns
             /\ audit_logs' = audit_logs
             /\ approvals' = approvals
             /\ pending_approvals' = pending_approvals
             /\ cb'[p].pc = "done"
             /\ ~cb'[p].logged]_vars

C3_Witness ==
    \E p \in DOMAIN cb:
        /\ cb[p].action = "approve"
        /\ cb[p].approval_id \in DOMAIN pending_approvals
        /\ cb[p].from_user /= pending_approvals[cb[p].approval_id].user_id
        /\ cb[p].result = "not yours"
        /\ approvals[RowOf(cb[p].approval_id)].status = "pending"
        /\ audit_logs = <<>>

\* C4: an approve event of the owner that is handled after the approval's
\* expires_at ends as "expired", with no handler run and no success entry.
C4_LateApproveIsExpired ==
    \A p \in DOMAIN cb:
        ( /\ cb[p].action = "approve"
          /\ cb[p].approval_id \in IssuedIds
          /\ cb[p].from_user = Owner(cb[p].approval_id)
          /\ cb[p].late
          /\ cb[p].pc = "done" )
        => /\ cb[p].result = "expired"
           /\ ~cb[p].logged

\* C5: once an approval's status is approved, rejected or expired, no step
\* changes its status or its resolved_at.
C5_ResolvedOnce ==
    [][\A id \in 1..Len(approvals):
          approvals[id].status /= "pending"
          => /\ approvals'[id].status = approvals[id].status
             /\ approvals'[id].resolved_at = approvals[id].resolved_at]_vars

C7_ExpiredIsFinal ==
    [][/\ \A id \in 1..Len(approvals):
             approvals[id].status = "expired" => approvals'[id].status = "expired"
       /\ \A id \in 1..Len(approvals):
             ( /\ lastLookup' /= lastLookup
               /\ lastLookup'.id = id
               /\ approvals[id].status = "pending"
               /\ approvals[id].expires_at < now )
             => /\ approvals'[id].status = "expired"
                /\ ~lastLookup'.found]_vars

\* C9: an approve event of the owner on a cached, unexpired approval that has
\* been handled has run the handler of the stored tool with the stored
\* payload, and has written a success entry for that user and tool.
C9_ApproveRunsHandler ==
    \A p \in DOMAIN cb:
        ( /\ cb[p].action = "approve"
          /\ cb[p].pc = "done"
          /\ ~cb[p].late
          /\ cb[p].result \notin {"expired", "not yours"} )
        => /\ \E n \in 1..Len(toolRuns):
                 toolRuns[n] = [tool |-> cb[p].approval.tool,
                                args |-> cb[p].approval.input,
                                via |-> "approve", user_id |-> cb[p].from_user]
           /\ \E n \in 1..Len(audit_logs):
                 /\ audit_logs[n].user_id = cb[p].from_user
                 /\ audit_logs[n].action = cb[p].approval.tool
                 /\ audit_logs[n].status = "success"
----------------------------------------------------------------------------
\* Properties of what one think call stores and returns (Spec)

\* C14: a think call stores exactly one user turn; it stores exactly one
\* assistant turn if and only if it ended with a model reply that carried no
\* tool invocations, and then the reply it returns is that reply's text,
\* which is the stored assistant turn, however many iterations ran before.
C14_OneUserOneAssistantTurn ==
    th.pc /= "idle" =>
        /\ CountRole(conversations, "user") = 1
        /\ CountRole(conversations, "assistant") =
               (IF th.ending = "final" THEN 1 ELSE 0)
        /\ th.ending = "final" =>
               /\ th.pc = "done"
               /\ th.result.response = th.reply_text
               /\ conversations[Len(conversations)] =
                      [user_id |-> th.user_id, role |-> "assistant",
                       content |-> th.reply_text]

C14_Witness ==
    /\ th.pc = "done"
    /\ th.ending = "final"
    /\ th.modelCalls = 3
    /\ ~th.malformed
    /\ th.result.response = "Omni-Agent is healthy"
    /\ CountRole(conversations, "assistant") = 1

\* C15: a model call that fails ends the think call at once: the reply is
\* the error reply, no assistant turn is stored, and afterwards no model call
\* is made and no tool handler is run.
C15_ModelErrorAborts ==
    [][/\ th'.ending = "error" =>
            /\ th'.pc = "done"
            /\ th'.result.response = "Error"
            /\ CountRole(conversations', "assistant") = 0
       /\ th.ending = "error" =>
            /\ th'.modelCalls = th.modelCalls
            /\ toolRuns' = toolRuns
            /\ conversations' = conversations]_vars

C15_Witness ==
    /\ th.ending = "error"
    /\ th.modelCalls = 2
    /\ Len(toolRuns) >= 1

\* C16: a reply whose body has no usable choices or message ends the call as
\* an error does: an error outcome and no stored assistant turn.
C16_MalformedIsError ==
    th.malformed =>
        /\ th.pc = "done"
        /\ th.ending \in {"error", "raised"}
        /\ CountRole(conversations, "assistant") = 0

\* C17: from the moment a think call can issue its first model call, and
\* whatever happens at or after that call, the user's turn is stored.
C17_UserTurnStoredFirst ==
    th.pc /= "idle" =>
        \E n \in 1..Len(conversations):
            conversations[n] = [user_id |-> th.user_id, role |-> "user",
                                content |-> th.user_message]

C17_Witness ==
    /\ th.pc = "done"
    /\ th.ending \in {"error", "raised"}
    /\ th.modelCalls = 1
    /\ conversations = <<[user_id |-> th.user_id, role |-> "user",
                          content |-> th.user_message]>>

----------------------------------------------------------------------------
\* Properties of tool dispatch inside the loop (DispatchSpec)

\* The texts _execute_tool can hand back for a name.
DispatchTexts(tool_name) ==
    {ToolResult(tool_name), <<"Unknown tool", tool_name>>,
     <<"Tool error", "Exception">>, <<"Tool error", "AttributeError">>}

\* One invocation was processed in this step: its tool message, and nothing
\* else, joined the context, and the loop moved on to the next invocation
\* or, after the last one, to the next model call.
InvocationAnswered ==
    LET tool_call == NextCall(th.tool_calls, th.k)
        last == th.k = Len(th.tool_calls)
        msg == th'.messages[Len(th'.messages)]
    IN /\ th'.ending /= "raised"
       /\ Len(th'.messages) = Len(th.messages) + 1
       /\ SubSeq(th'.messages, 1, Len(th.messages)) = th.messages
       /\ msg.role = "tool"
       /\ msg.tool_call_id = tool_call.id
       /\ msg.content \in DispatchTexts(tool_call.name)
       /\ IF last
          THEN /\ th'.i = th.i + 1
               /\ th'.pc = (IF LoopExhausted(th.i) THEN "done" ELSE "call")
          ELSE th'.pc = "tools" /\ th'.k = th.k + 1

\* C18: dispatching an invocation never raises, whatever the name, the
\* parsed arguments and the handler's outcome: the invocation is answered
\* with a text in the model's context and the loop goes on.
C18_DispatchNeverRaises ==
    [][th.pc = "tools" => InvocationAnswered]_vars

\* A handler failed on the first invocation, its error text is in the
\* context, and the second invocation was answered after it.
C18_Witness ==
    /\ th.pc = "call"
    /\ Len(th.messages) = 4
    /\ th.messages[3].role = "tool"
    /\ th.messages[3].content = <<"Tool error", "Exception">>
    /\ th.messages[4].role = "tool"
    /\ th.messages[4].content = <<"Unknown tool", "no_such_tool">>

\* C19: an invocation of a tool whose argument string is not JSON runs the
\* handler with the empty mapping, is answered with exactly one tool
\* message, and does not end the turn.
C19_BadJsonRunsWithEmptyArgs ==
    [][(/\ th.pc = "tools"
        /\ NextCall(th.tool_calls, th.k).arguments \notin JsonValues
        /\ NextCall(th.tool_calls, th.k).name \in KnownTools)
       => /\ InvocationAnswered
          /\ toolRuns' = Append(toolRuns,
                                [tool |-> NextCall(th.tool_calls, th.k).name,
                                 args |-> EmptyArgs, via |-> "think",
                                 user_id |-> th.user_id])]_vars

C19_Witness ==
    /\ th.pc = "call"
    /\ Len(th.tool_calls) = 1
    /\ th.tool_calls[1].arguments = "{not json"
    /\ toolRuns = <<[tool |-> "check_omni_agent", args |-> EmptyArgs,
                     via |-> "think", user_id |-> th.user_id]>>
    /\ Len(th.messages) = 3
    /\ th.messages[3].role = "tool"

----------------------------------------------------------------------------
\* Properties of the reject branch (GateSpec)

\* C20: a reject event of the owner on a pending, unexpired approval that
\* has been handled has written an audit entry with status rejected, has run
\* no tool handler, and has left the approval's row in the rejected state.
C20_RejectIsTerminal ==
    \A p \in DOMAIN cb:
        ( /\ cb[p].action = "reject"
          /\ cb[p].pc = "done"
          /\ ~cb[p].late
          /\ cb[p].result = "rejected" )
        => /\ \E n \in 1..Len(audit_logs):
                 /\ audit_logs[n].user_id = cb[p].from_user
                 /\ audit_logs[n].action = cb[p].approval.tool
                 /\ audit_logs[n].status = "rejected"
           /\ toolRuns = <<>>
           /\ approvals[RowOf(cb[p].approval_id)].status = "rejected"

----------------------------------------------------------------------------
\* Properties of get_conversation_for_context (ContextSpec)

\* The token estimate of a list of turns.
RECURSIVE TokenSum(_)
TokenSum(msgs) ==
    IF msgs = <<>> THEN 0
    ELSE Len(Head(msgs).content) \div 4 + TokenSum(Tail(msgs))

\* The stored turns of a user as the context shows them, oldest first.
Shown(rows, user_id) ==
    [n \in 1..Len(UserRows(rows, user_id)) |->
        [role |-> UserRows(rows, user_id)[n].role,
         content |-> UserRows(rows, user_id)[n].content]]

IsSuffix(s, t) ==
    /\ Len(s) <= Len(t)
    /\ s = SubSeq(t, Len(t) - Len(s) + 1, Len(t))

\* C11: the token estimates of the turns that get_conversation_for_context
\* returns add up to at most max_tokens, for every history and every budget.
C11_ContextWithinBudget ==
    ctx.called => TokenSum(ctx.result) <= ctx.max_tokens

\* The budget cut the history: some turns are in, the estimate is used up.
C11_Witness ==
    /\ ctx.called
    /\ ctx.result /= <<>>
    /\ Len(ctx.result) < Len(UserRows(conversations, ctx.user_id))
    /\ TokenSum(ctx.result) = ctx.max_tokens

\* C12: the returned turns are the newest turns of the user, in
\* chronological order: a turn is in only if every newer turn is in.
C12_NewestTurnsKept ==
    ctx.called => IsSuffix(ctx.result, Shown(conversations, ctx.user_id))

----------------------------------------------------------------------------
\* Properties of the monitor's classification (MonitorSpec)

\* C13: the overall status depends on the number of issues only: none gives
\* healthy, one or two give warning, three or more give critical.
C13_OverallByIssueCount ==
    mon.evaluated =>
        /\ Len(mon.issues) = 0 => mon.overall = "healthy"
        /\ Len(mon.issues) \in {1, 2} => mon.overall = "warning"
        /\ Len(mon.issues) >= 3 => mon.overall = "critical"

C13_Witness ==
    /\ mon.evaluated
    /\ mon.issues = <<"health", "dead_letter", "stale">>
    /\ mon.overall = "critical"

----------------------------------------------------------------------------
\* Properties of resolution events (GateSpec)

\* The outcomes with which a branch of handle_callback resolves an approval.
Resolutions == {"done", "failed", "rejected"}

\* An event for this id has been handled to its end as a resolution.
AlreadyResolved(approval_id) ==
    \E p \in DOMAIN cb:
        /\ cb[p].approval_id = approval_id
        /\ cb[p].pc = "done"
        /\ cb[p].result \in Resolutions

C25_DurableRowFollowsCache ==
    \A p \in DOMAIN cb:
        ( /\ cb[p].pc = "done"
          /\ cb[p].result \in Resolutions
          /\ ~cb[p].late )
        => /\ ~InCache(cb[p].approval_id)
           /\ approvals[RowOf(cb[p].approval_id)].status =
                  (IF cb[p].action = "approve" THEN "approved" ELSE "rejected")

\* The audit entries with this status.
CountStatus(rows, status) == Len(SelectSeq(rows, LAMBDA r: r.status = status))

\* The events that have resolved, or are resolving, with this outcome.
CountOutcome(outcome) ==
    Cardinality({p \in DOMAIN cb: cb[p].logged /\ cb[p].outcome = outcome})

\* C26: every resolution by the owner writes exactly one audit entry, with
\* status success when the handler ran, failed with an error message when
\* the execution failed, rejected for a reject; no resolution leaves two
\* entries and no failed execution is logged as success.
C26_OneAuditEntryPerResolution ==
    /\ CountStatus(audit_logs, "success") = CountOutcome("done")
    /\ CountStatus(audit_logs, "failed") = CountOutcome("failed")
    /\ CountStatus(audit_logs, "rejected") = CountOutcome("rejected")
    /\ Len(audit_logs) = Cardinality({p \in DOMAIN cb: cb[p].logged})
    /\ \A p \in DOMAIN cb:
          cb[p].pc \in {"cleanup", "done"} /\ cb[p].approval /= NoApproval
              => cb[p].logged
    /\ \A n \in 1..Len(audit_logs):
          /\ audit_logs[n].status = "failed" => audit_logs[n].error_message /= None
          /\ audit_logs[n].status = "success" =>
                \E m \in 1..Len(toolRuns): toolRuns[m].via = "approve"

\* An approve that failed and a reject, each with its one entry.
C26_Witness ==
    /\ Len(audit_logs) = 2
    /\ CountStatus(audit_logs, "failed") = 1
    /\ CountStatus(audit_logs, "rejected") = 1
    /\ \A p \in DOMAIN cb: cb[p].pc = "done"

----------------------------------------------------------------------------
\* Properties of the exhausted loop (Spec)

\* C27: the step that exhausts the iteration cap stores no assistant turn
\* and takes nothing back: the stored turns are what they were, the user's
\* turn among them, and every handler run of the call is still on record.
C27_CapKeepsWhatWasDone ==
    [][(th'.ending = "cap" /\ th.ending /= "cap")
       => /\ th'.result.response = TooManySteps
          /\ conversations' = conversations
          /\ CountRole(conversations', "assistant") = 0
          /\ \E n \in 1..Len(conversations'):
                conversations'[n] = [user_id |-> th.user_id, role |-> "user",
                                     content |-> th.user_message]
          /\ Len(toolRuns') >= max_iterations
          /\ SubSeq(toolRuns', 1, Len(toolRuns)) = toolRuns]_vars

C27_Witness ==
    /\ th.ending = "cap"
    /\ th.pc = "done"
    /\ Len(toolRuns) > max_iterations
    /\ conversations = <<[user_id |-> th.user_id, role |-> "user",
                          content |-> th.user_message]>>

----------------------------------------------------------------------------
\* Properties of one monitor evaluation (MonitorSpec)

\* No successful run within the staleness window: the run log has no
\* successful run, or its last one is older than max_hours_without_post.
NoRecentSuccess(scheduler) ==
    /\ "last_success" \in DOMAIN scheduler
    /\ \/ ~scheduler.last_success.present
       \/ /\ scheduler.last_success.parses
          /\ scheduler.last_success.hours_ago > max_hours_without_post

\* One issue for each condition that holds, in the order of the tests.
ExpectedIssues(health, tasks, scheduler) ==
    (IF health.status /= "healthy" THEN <<"health">> ELSE <<>>)
    \o (IF TasksGet(tasks, "dead_letter") > 0 THEN <<"dead_letter">> ELSE <<>>)
    \o (IF TasksGet(tasks, "failed") > 2 THEN <<"failed">> ELSE <<>>)
    \o (IF NoRecentSuccess(scheduler) THEN <<"stale">> ELSE <<>>)

\* C28: the issues of an evaluation are exactly one per condition that
\* holds: health not healthy, dead-letter tasks, more than 2 failed tasks,
\* no successful run within the window (a log without any successful run
\* included).
C28_OneIssuePerCondition ==
    mon.evaluated =>
        mon.issues = ExpectedIssues(mon.health, mon.tasks, mon.scheduler)

\* C29: an evaluation performs all three polls whatever fails: a failed poll
\* shows as an error object of that poll, and an overall status is returned.
C29_PollsAreIndependent ==
    (mon.evaluated \/ mon.aborted) =>
        /\ mon.evaluated /\ ~mon.aborted
        /\ mon.polls = <<"health", "tasks", "scheduler">>
        /\ mon.health \in HealthResults
        /\ mon.tasks \in TasksResults
        /\ mon.scheduler \in SchedulerResults
        /\ mon.overall \in {"healthy", "warning", "critical"}

\* The first poll failed, the other two were made and answered.
C29_Witness ==
    /\ mon.evaluated
    /\ mon.polls = <<"health", "tasks", "scheduler">>
    /\ mon.health.status = "error"
    /\ mon.tasks.status = "ok"
    /\ mon.scheduler.status = "ok"
    /\ mon.overall = "warning"

----------------------------------------------------------------------------
\* Properties of the monitoring loop (MonitorLoopSpec, MonitorLoopFairSpec)

\* C22: an exception inside an iteration never ends the loop: the loop is
\* left only after stop(), and a tick that raised is followed by the sleep
\* and by the next tick, unless stop() is called first.
C22_LoopSurvivesExceptions ==
    /\ [](ml.pc /= "crashed")
    /\ [](ml.pc = "stopped" => ~ml.is_running)
    /\ \A n \in 1..(MaxTicks - 1):
          (ml.raised /\ ml.pc = "sleep" /\ ml.ticks = n)
              ~> (ml.ticks = n + 1 \/ ~ml.is_running)

\* The callback raised on a warning tick (the count was not reset), and a
\* later tick has run.
C22_Witness ==
    /\ ml.recent = <<"critical", "warning", "critical">>
    /\ ml.consecutive_failures = 2
    /\ ml.is_running
    /\ ml.pc = "sleep"

\* The status alerts delivered, in order.
StatusAlerts == SelectSeq(am.sent, LAMBDA e: e.type = "status")

\* C23: the callback is invoked on exactly the ticks that are not healthy;
\* two delivered alerts of one status class are at least cooldown_minutes
\* apart; and the alert of a tick is delivered unless one of its own class
\* was delivered less than cooldown_minutes before.
C23_AlertsPerClassCooldown ==
    /\ ml.ticks > 0 => (ml.invoked <=> ml.overall /= "healthy")
    /\ \A i, j \in 1..Len(StatusAlerts):
          (i < j /\ StatusAlerts[i].key = StatusAlerts[j].key)
              => StatusAlerts[j].time - StatusAlerts[i].time >= cooldown_minutes
    /\ (ml.invoked /\ ~ml.raised)
          => \E i \in 1..Len(StatusAlerts):
                /\ StatusAlerts[i].key = ml.overall
                /\ ml.tick_time - StatusAlerts[i].time < cooldown_minutes

\* A warning, a critical alert inside its window, and the next warning when
\* the window is over.
C23_Witness ==
    /\ Len(StatusAlerts) = 3
    /\ StatusAlerts[1].key = "warning"
    /\ StatusAlerts[2].key = "critical"
    /\ StatusAlerts[2].time - StatusAlerts[1].time < cooldown_minutes
    /\ StatusAlerts[3].key = "warning"
    /\ StatusAlerts[3].time - StatusAlerts[1].time = cooldown_minutes

\* C24: fixes run only when this evaluation and the two before it were
\* critical, and an evaluation that is not critical leaves the count at 0.
C24_FixOnlyAfterThreeCriticals ==
    /\ ml.fixed /= <<>> => ml.recent = <<"critical", "critical", "critical">>
    /\ (ml.ticks > 0 /\ ml.overall /= "critical")
          => ml.consecutive_failures = 0

\* C30: every fix executed in a tick has its report delivered in that tick.
C30_EveryFixReported ==
    ~ml.raised =>
        \A n \in 1..Len(ml.fixed):
            \E m \in 1..Len(am.sent):
                /\ am.sent[m].type = "auto_fix"
                /\ am.sent[m].about = ml.fixed[n]
                /\ am.sent[m].time = ml.tick_time

----------------------------------------------------------------------------
----------------------------------------------------------------------------
\* Properties of the message list of one think call (DispatchSpec)

\* A sequence of iterations: each is the assistant's tool-invocation message
\* followed by the tool results of its invocations, in the order of the
\* invocations; only the last iteration may still be running, and only when
\* complete is FALSE.
RECURSIVE Iterations(_, _)
Iterations(msgs, complete) ==
    IF msgs = <<>> THEN TRUE
    ELSE LET a == Head(msgs)
             rest == Tail(msgs)
         IN /\ a.role = "assistant"
            /\ "tool_calls" \in DOMAIN a
            /\ LET n == Len(a.tool_calls)
                   m == IF Len(rest) < n THEN Len(rest) ELSE n
               IN /\ \A j \in 1..m :
                        /\ rest[j].role = "tool"
                        /\ rest[j].tool_call_id = a.tool_calls[j].id
                  /\ IF Len(rest) < n THEN ~complete
                     ELSE Iterations(SubSeq(rest, n + 1, Len(rest)), complete)

\* The context (empty in this specification, where nothing is stored before
\* the call), the user turn, and the iterations so far.
Accumulated(msgs, complete) ==
    /\ msgs /= <<>>
    /\ Head(msgs) = [role |-> "user", content |-> th.user_message]
    /\ Iterations(Tail(msgs), complete)

\* The assistant tool-invocation messages in a list.
ToolInvocationMessages(msgs) ==
    SelectSeq(msgs, LAMBDA m: m.role = "assistant" /\ "tool_calls" \in DOMAIN m)

----------------------------------------------------------------------------
\* Properties of the approval gate across a restart (RestartSpec)

\* C31: an approve or reject event from the owner for an issued approval
\* whose row is pending and not expired, and which no earlier event has
\* taken from the cache, is not answered as expired, whether or not the id
\* is still in the cache.
C31_CacheMissResolvedFromStore ==
    \A p \in DOMAIN cb :
        (/\ cb[p].action \in {"approve", "reject"}
         /\ cb[p].approval_id \in IssuedIds
         /\ approvals[RowOf(cb[p].approval_id)].status = "pending"
         /\ ~cb[p].late
         /\ cb[p].from_user = approvals[RowOf(cb[p].approval_id)].user_id
         /\ \A q \in 1..(p - 1) :
               cb[q].approval_id = cb[p].approval_id => cb[q].approval = NoApproval)
            => cb[p].result /= "expired"

----------------------------------------------------------------------------
\* Properties of the bot's handlers (BotSpec)

\* C33: no step removes or changes a stored turn: the turns stored before
\* the step are the first turns stored after it, row for row.
C33_TurnsAppendOnly ==
    [][/\ Len(conversations') >= Len(conversations)
       /\ \A n \in 1..Len(conversations) : conversations'[n] = conversations[n]
       /\ \A u \in Users :
             Len(UserRows(conversations', u)) >= Len(UserRows(conversations, u))]_vars

\* A message was answered and stored as two turns, /clear ran after that, a
\* button event was handled, and both turns are still stored.
C33_Witness ==
    /\ bot.cleared_at = 2
    /\ Len(cb) = 1
    /\ Len(conversations) = 2
    /\ conversations[1].role = "user"
    /\ conversations[2].role = "assistant"
    /\ th.pc = "idle"

\* C38: with a non-empty allow-list, every stored turn, every tool run by
\* think and every think call in progress belongs to a user on the list.
C38_UnauthorizedCausesNothing ==
    bot.allowed /= {} =>
        /\ \A n \in 1..Len(conversations) : conversations[n].user_id \in bot.allowed
        /\ \A n \in 1..Len(toolRuns) :
              toolRuns[n].via = "think" => toolRuns[n].user_id \in bot.allowed
        /\ th.pc /= "idle" => th.user_id \in bot.allowed

\* u2 is not on the list and was refused; u1 is and had a tool run and an
\* answer stored.
C38_Witness ==
    /\ bot.allowed = {"u1"}
    /\ "u2" \in bot.denied
    /\ Len(conversations) = 2
    /\ Len(toolRuns) = 1
    /\ toolRuns[1].user_id = "u1"

----------------------------------------------------------------------------
\* Properties of the preference table (PrefsSpec)

\* The rows of one user.
PrefRows(user_id) == SelectSeq(prefs.rows, LAMBDA r: r.user_id = user_id)

\* The calls for one user that have returned or raised.
PrefCallsEnded(user_id) ==
    {c \in DOMAIN prefs.calls :
        prefs.calls[c].user_id = user_id /\ prefs.calls[c].pc \in {"done", "raised"}}

\* C34: a user has one row as soon as a call for them has ended, never two,
\* and none before any call; a column of the row holds its default unless a
\* committed update_preferences call set it.
C34_OnePreferenceRowPerUser ==
    \A u \in Users :
        /\ Len(PrefRows(u)) <= 1
        /\ PrefCallsEnded(u) /= {} => Len(PrefRows(u)) = 1
        /\ (\A c \in DOMAIN prefs.calls : prefs.calls[c].user_id /= u)
              => PrefRows(u) = <<>>
        /\ \A n \in 1..Len(PrefRows(u)) :
              \A col \in DOMAIN PrefDefaults :
                 \/ PrefRows(u)[n][col] = PrefDefaults[col]
                 \/ \E c \in PrefCallsEnded(u) :
                       /\ prefs.calls[c].op = "update"
                       /\ prefs.calls[c].pc = "done"
                       /\ prefs.calls[c].kwargs.key = col
                       /\ prefs.calls[c].kwargs.value = PrefRows(u)[n][col]

\* Two first accesses of u1 overlapped: both queries found no row, one
\* commit inserted the row and the unique index rejected the other.
C34_Witness ==
    \E c, d \in DOMAIN prefs.calls :
        /\ c /= d
        /\ prefs.calls[c].user_id = "u1" /\ prefs.calls[d].user_id = "u1"
        /\ prefs.calls[c].op = "get" /\ prefs.calls[d].op = "get"
        /\ prefs.calls[c].found = 0 /\ prefs.calls[d].found = 0
        /\ prefs.calls[c].pc = "done" /\ prefs.calls[d].pc = "raised"
        /\ Len(PrefRows("u1")) = 1
        /\ PrefRows("u1")[1].verbosity = PrefDefaults.verbosity

----------------------------------------------------------------------------
\* Properties of think calls that share the brain (MediaSpec)

C36_CounterAndRepeatedFix ==
    [][ml'.ticks = ml.ticks + 1
       => /\ ml'.consecutive_failures /= ml.consecutive_failures
                => \/ /\ ml'.overall = "critical"
                      /\ ml'.consecutive_failures = ml.consecutive_failures + 1
                   \/ /\ ml'.overall /= "critical"
                      /\ ml'.consecutive_failures = 0
          /\ (/\ ml.consecutive_failures >= max_consecutive_failures
              /\ ml'.overall = "critical")
                => /\ ml'.consecutive_failures = ml.consecutive_failures + 1
                   /\ ml'.fixed /= <<>>]_vars

\* The times at which an alert of this key was sent before time t.
SentBefore(key, t) ==
    {am.sent[i].time : i \in {j \in 1..Len(am.sent) :
                                 am.sent[j].key = key /\ am.sent[j].time < t}}

\* C37: the last-alert time of a class is always the time of the last alert
\* of that class that was sent (a skipped alert leaves it alone), and the
\* alert of a tick whose callback returned is sent whenever no alert of its
\* class was sent during the cooldown_minutes before the tick.
C37_SkippedAlertKeepsStamp ==
    /\ \A key \in DOMAIN am.last_alert_time :
          /\ \E i \in 1..Len(am.sent) :
                am.sent[i].key = key /\ am.sent[i].time = am.last_alert_time[key]
          /\ \A i \in 1..Len(am.sent) :
                am.sent[i].key = key => am.sent[i].time <= am.last_alert_time[key]
    /\ (ml.invoked /\ ~ml.raised
          /\ \A t \in SentBefore(ml.overall, ml.tick_time) :
                ml.tick_time - t >= cooldown_minutes)
          => \E i \in 1..Len(am.sent) :
                /\ am.sent[i].type = "status"
                /\ am.sent[i].key = ml.overall
                /\ am.sent[i].time = ml.tick_time

\* Three warning ticks fifteen minutes apart: the first alert was sent, the
\* second fell inside the window, the third was sent when the window closed.
C37_Witness ==
    /\ ml.ticks = 3
    /\ ml.interval = 15
    /\ ml.recent = <<"warning", "warning", "warning">>
    /\ ~ml.raised
    /\ Len(StatusAlerts) = 2
    /\ StatusAlerts[1].time = 0
    /\ StatusAlerts[2].time = cooldown_minutes
    /\ am.last_alert_time["warning"] = cooldown_minutes

\* stop() has been called and run_monitoring_loop has not returned yet.
Stopping == ~ml.is_running /\ ml.pc \in {"tick", "sleep"}

\* C39: after stop() the loop evaluates no status again (no tick, no alert,
\* no fix), the first step it takes once its sleep is over is to return, and
\* it does return.
C39_StopEndsLoop ==
    /\ [][Stopping => /\ ml'.ticks = ml.ticks
                      /\ ml'.consecutive_failures = ml.consecutive_failures
                      /\ am' = am
                      /\ ~ml'.is_running
                      /\ ml'.pc \in {ml.pc, "tick", "stopped"}
                      /\ (ml.pc = "tick" => ml'.pc \in {"tick", "stopped"})]_vars
    /\ Stopping ~> (ml.pc = "stopped")

\* The loop ran two ticks, stop() was called, and the loop has returned.
C39_Witness ==
    /\ ml.pc = "stopped"
    /\ ml.ticks = 2
    /\ ~ml.is_running

\* C40: a details event from the owner on a cached approval changes nothing:
\* the step that answers it leaves the cache, the approval rows, the audit
\* log and the executed tools as they were, and the approval is still in the
\* cache afterwards, so a later approve or reject event finds it.
C40_DetailsChangesNothing ==
    [][(/\ Len(cb') = Len(cb) + 1
        /\ cb'[Len(cb')].result = "details")
       => /\ UNCHANGED <<pending_approvals, approvals, audit_logs, toolRuns>>
          /\ cb'[Len(cb')].approval_id \in DOMAIN pending_approvals'
          /\ cb'[Len(cb')].pc = "done"
          /\ ~cb'[Len(cb')].logged]_vars

\* A details event was answered and a later approve event for the same
\* approval still found it in the cache and entered the approve branch.
C40_Witness ==
    \E p, q \in DOMAIN cb :
        /\ p < q
        /\ cb[p].result = "details"
        /\ cb[q].approval_id = cb[p].approval_id
        /\ cb[q].action = "approve"
        /\ cb[q].approval # NoApproval

====
